---- MODULE Spec2Model ----
(***************************************************************************)
(* IC package tracker (src/index.ts).  The file carries two revisions of   *)
(* the canister; `revision` selects which one is deployed.  Every handler  *)
(* is a pure operator over the two stable maps that yields the reply and   *)
(* the maps after the call; the actions apply those operators.             *)
(***************************************************************************)
EXTENDS Integers, Sequences, FiniteSets, TLC

VARIABLES revision, packageHolderStorage, packageStorage, issued, now

vars == <<revision, packageHolderStorage, packageStorage, issued, now>>

\* ---- bounds of the model ------------------------------------------------
MaxHolders == 2
MaxPackages == 2
MaxUpdates == 2
MaxTime == 1

\* ---- identifiers and inputs ----------------------------------------------
\* uuidv4(): an opaque generator of well-formed, never repeated identifiers.
UUIDPool == <<"u01", "u02", "u03", "u04", "u05", "u06", "u07", "u08", "u09", "u10">>

\* A well-formed identifier that uuidv4() never hands out.
GhostUUID == "u99"

uuidv4 == UUIDPool[issued + 1]

isValidUUID(s) == s = GhostUUID \/ \E i \in 1..Len(UUIDPool) : UUIDPool[i] = s

IssuedUUIDs == {UUIDPool[i] : i \in 1..issued}

\* Every identifier a caller can pass: issued ones, a well-formed unknown one, a
\* malformed one and the empty string.
IdInputs == IssuedUUIDs \cup {GhostUUID, "not-a-uuid", ""}

Names == {"", "   ", "Alice"}

\* JavaScript `!s` on a string: only the empty string is falsy.
IsFalsy(s) == s = ""

packageStatusStrings ==
  [PROCESSING |-> "processing", IN_TRANSIT |-> "in transit", DELIVERED |-> "delivered"]

ic_time == now

\* ---- Result and StableBTreeMap --------------------------------------------
Ok(v) == [ok |-> TRUE, Ok |-> v]

Err(m) == [ok |-> FALSE, Err |-> m]

Insert(map, k, v) == [x \in (DOMAIN map) \cup {k} |-> IF x = k THEN v ELSE map[x]]

\* Position of an identifier in key order.
KeyIndex(u) == CHOOSE i \in 1..Len(UUIDPool) : UUIDPool[i] = u

RECURSIVE Values(_, _)
Values(map, keys) ==
  IF keys = {} THEN <<>>
  ELSE LET k == CHOOSE x \in keys : \A y \in keys : KeyIndex(x) <= KeyIndex(y)
       IN <<map[k]>> \o Values(map, keys \ {k})

\* ---- holder registry ------------------------------------------------------
Reply(res, holders, packages, n) ==
  [res |-> res, holders |-> holders, packages |-> packages, issued |-> n]

Unchanged(res) == Reply(res, packageHolderStorage, packageStorage, issued)

createPackageHolderRev1(name) ==
  IF IsFalsy(name) THEN Unchanged(Err(<<"Name is required.">>))
  ELSE IF \E u \in DOMAIN packageHolderStorage : packageHolderStorage[u].name = name
  THEN Unchanged(Err(<<"A PackageHolder with the same name already exists.">>))
  ELSE LET packageHolderUUID == uuidv4
           newPackageHolder == [uuid |-> packageHolderUUID, name |-> name]
       IN Reply(Ok(newPackageHolder),
                Insert(packageHolderStorage, packageHolderUUID, newPackageHolder),
                packageStorage, issued + 1)

\* createPackageHolderRev2 with the identifier generated once instead of at every call.
createPackageHolderRev2ReusesUUID(name) ==
  IF IsFalsy(name) THEN Unchanged(Err(<<"Name is required.">>))
  ELSE LET packageHolderUUID == UUIDPool[1]
           newPackageHolder == [uuid |-> packageHolderUUID, name |-> name]
       IN Reply(Ok(newPackageHolder),
                Insert(packageHolderStorage, packageHolderUUID, newPackageHolder),
                packageStorage, issued + 1)

createPackageHolderRev2(name) ==
  IF IsFalsy(name) THEN Unchanged(Err(<<"Name is required.">>))
  ELSE LET packageHolderUUID == uuidv4
           newPackageHolder == [uuid |-> packageHolderUUID, name |-> name]
       IN Reply(Ok(newPackageHolder),
                Insert(packageHolderStorage, packageHolderUUID, newPackageHolder),
                packageStorage, issued + 1)

createPackageHolder(name) ==
  IF revision = 1 THEN createPackageHolderRev1(name) ELSE createPackageHolderRev2(name)

getPackageHolderById(uuid) ==
  IF ~isValidUUID(uuid) THEN Err(<<"Invalid package holder UUID.">>)
  ELSE IF uuid \in DOMAIN packageHolderStorage THEN Ok(packageHolderStorage[uuid])
  ELSE Err(<<"Package holder not found.">>)

getAllPackageHolders == Ok(Values(packageHolderStorage, DOMAIN packageHolderStorage))

\* ---- package ledger -------------------------------------------------------
HolderNotFound(id) ==
  <<"Could not update package with the holder id=", id, ". Package holder not found!">>

\* createPackageRev1 with the recipient taken for the current holder of the new package.
createPackageRev1HandsToRecipient(senderId, recipientId, firstDeliveryPersonId) ==
  IF IsFalsy(senderId) \/ IsFalsy(recipientId) \/ IsFalsy(firstDeliveryPersonId)
  THEN Unchanged(Err(<<"Sender, recipient, and first delivery person ids are required.">>))
  ELSE IF ~isValidUUID(senderId) \/ ~isValidUUID(recipientId)
          \/ ~isValidUUID(firstDeliveryPersonId)
  THEN Unchanged(Err(<<"Invalid sender, recipient, or first delivery person ID.">>))
  ELSE LET packageHolders == <<senderId, recipientId, firstDeliveryPersonId>>
           missing == {i \in 1..3 : ~getPackageHolderById(packageHolders[i]).ok}
       IN IF missing # {}
          THEN Unchanged(Err(HolderNotFound(
                 packageHolders[CHOOSE i \in missing : \A j \in missing : i <= j])))
          ELSE LET currentTimestamp == ic_time
                   packageId == uuidv4
                   newPackage ==
                     [id |-> packageId,
                      sender |-> [uuid |-> senderId, name |-> "sender"],
                      recipient |-> [uuid |-> recipientId, name |-> "recipient"],
                      status |-> packageStatusStrings.PROCESSING,
                      currentPackageHolder |->
                        [uuid |-> recipientId, name |-> "first delivery person"],
                      deliveryHistory |->
                        << [packageHolder |-> [uuid |-> senderId, name |-> "sender"],
                            timestamp |-> currentTimestamp],
                           [packageHolder |-> [uuid |-> firstDeliveryPersonId,
                                               name |-> "first delivery person"],
                            timestamp |-> currentTimestamp] >>,
                      createdAt |-> currentTimestamp]
               IN Reply(Ok(newPackage), packageHolderStorage,
                        Insert(packageStorage, packageId, newPackage), issued + 1)

\* createPackageRev1 reporting the last holder that does not resolve instead of the first.
createPackageRev1NamesLastMissing(senderId, recipientId, firstDeliveryPersonId) ==
  IF IsFalsy(senderId) \/ IsFalsy(recipientId) \/ IsFalsy(firstDeliveryPersonId)
  THEN Unchanged(Err(<<"Sender, recipient, and first delivery person ids are required.">>))
  ELSE IF ~isValidUUID(senderId) \/ ~isValidUUID(recipientId)
          \/ ~isValidUUID(firstDeliveryPersonId)
  THEN Unchanged(Err(<<"Invalid sender, recipient, or first delivery person ID.">>))
  ELSE LET packageHolders == <<senderId, recipientId, firstDeliveryPersonId>>
           missing == {i \in 1..3 : ~getPackageHolderById(packageHolders[i]).ok}
       IN IF missing # {}
          THEN Unchanged(Err(HolderNotFound(
                 packageHolders[CHOOSE i \in missing : \A j \in missing : i >= j])))
          ELSE LET currentTimestamp == ic_time
                   packageId == uuidv4
                   newPackage ==
                     [id |-> packageId,
                      sender |-> [uuid |-> senderId, name |-> "sender"],
                      recipient |-> [uuid |-> recipientId, name |-> "recipient"],
                      status |-> packageStatusStrings.PROCESSING,
                      currentPackageHolder |->
                        [uuid |-> firstDeliveryPersonId, name |-> "first delivery person"],
                      deliveryHistory |->
                        << [packageHolder |-> [uuid |-> senderId, name |-> "sender"],
                            timestamp |-> currentTimestamp],
                           [packageHolder |-> [uuid |-> firstDeliveryPersonId,
                                               name |-> "first delivery person"],
                            timestamp |-> currentTimestamp] >>,
                      createdAt |-> currentTimestamp]
               IN Reply(Ok(newPackage), packageHolderStorage,
                        Insert(packageStorage, packageId, newPackage), issued + 1)

createPackageRev1(senderId, recipientId, firstDeliveryPersonId) ==
  IF IsFalsy(senderId) \/ IsFalsy(recipientId) \/ IsFalsy(firstDeliveryPersonId)
  THEN Unchanged(Err(<<"Sender, recipient, and first delivery person ids are required.">>))
  ELSE IF ~isValidUUID(senderId) \/ ~isValidUUID(recipientId)
          \/ ~isValidUUID(firstDeliveryPersonId)
  THEN Unchanged(Err(<<"Invalid sender, recipient, or first delivery person ID.">>))
  ELSE LET packageHolders == <<senderId, recipientId, firstDeliveryPersonId>>
           missing == {i \in 1..3 : ~getPackageHolderById(packageHolders[i]).ok}
       IN IF missing # {}
          THEN Unchanged(Err(HolderNotFound(
                 packageHolders[CHOOSE i \in missing : \A j \in missing : i <= j])))
          ELSE LET currentTimestamp == ic_time
                   packageId == uuidv4
                   newPackage ==
                     [id |-> packageId,
                      sender |-> [uuid |-> senderId, name |-> "sender"],
                      recipient |-> [uuid |-> recipientId, name |-> "recipient"],
                      status |-> packageStatusStrings.PROCESSING,
                      currentPackageHolder |->
                        [uuid |-> firstDeliveryPersonId, name |-> "first delivery person"],
                      deliveryHistory |->
                        << [packageHolder |-> [uuid |-> senderId, name |-> "sender"],
                            timestamp |-> currentTimestamp],
                           [packageHolder |-> [uuid |-> firstDeliveryPersonId,
                                               name |-> "first delivery person"],
                            timestamp |-> currentTimestamp] >>,
                      createdAt |-> currentTimestamp]
               IN Reply(Ok(newPackage), packageHolderStorage,
                        Insert(packageStorage, packageId, newPackage), issued + 1)

\* createPackageRev2 with a second uuidv4() call for the id field of the record.
createPackageRev2SecondUUID(senderId, recipientId, firstDeliveryPersonId) ==
  IF IsFalsy(senderId) \/ IsFalsy(recipientId) \/ IsFalsy(firstDeliveryPersonId)
  THEN Unchanged(Err(<<"Sender, recipient, and first delivery person ids are required.">>))
  ELSE IF ~isValidUUID(senderId) \/ ~isValidUUID(recipientId)
          \/ ~isValidUUID(firstDeliveryPersonId)
  THEN Unchanged(Err(<<"Invalid sender, recipient, or first delivery person ID.">>))
  ELSE LET sender == getPackageHolderById(senderId)
           recipient == getPackageHolderById(recipientId)
           firstDeliveryPerson == getPackageHolderById(firstDeliveryPersonId)
       IN IF ~sender.ok THEN Unchanged(Err(HolderNotFound(senderId)))
          ELSE IF ~recipient.ok THEN Unchanged(Err(HolderNotFound(recipientId)))
          ELSE IF ~firstDeliveryPerson.ok
          THEN Unchanged(Err(HolderNotFound(firstDeliveryPersonId)))
          ELSE LET packageId == uuidv4
                   newPackage ==
                     [id |-> UUIDPool[issued + 2],
                      sender |-> sender.Ok,
                      recipient |-> recipient.Ok,
                      status |-> packageStatusStrings.PROCESSING,
                      currentPackageHolder |-> firstDeliveryPerson.Ok,
                      deliveryHistory |->
                        << [packageHolder |-> sender.Ok, timestamp |-> ic_time],
                           [packageHolder |-> firstDeliveryPerson.Ok,
                            timestamp |-> ic_time] >>,
                      createdAt |-> ic_time]
               IN Reply(Ok(newPackage), packageHolderStorage,
                        Insert(packageStorage, packageId, newPackage), issued + 1)

createPackageRev2(senderId, recipientId, firstDeliveryPersonId) ==
  IF IsFalsy(senderId) \/ IsFalsy(recipientId) \/ IsFalsy(firstDeliveryPersonId)
  THEN Unchanged(Err(<<"Sender, recipient, and first delivery person ids are required.">>))
  ELSE IF ~isValidUUID(senderId) \/ ~isValidUUID(recipientId)
          \/ ~isValidUUID(firstDeliveryPersonId)
  THEN Unchanged(Err(<<"Invalid sender, recipient, or first delivery person ID.">>))
  ELSE LET sender == getPackageHolderById(senderId)
           recipient == getPackageHolderById(recipientId)
           firstDeliveryPerson == getPackageHolderById(firstDeliveryPersonId)
       IN IF ~sender.ok THEN Unchanged(Err(HolderNotFound(senderId)))
          ELSE IF ~recipient.ok THEN Unchanged(Err(HolderNotFound(recipientId)))
          ELSE IF ~firstDeliveryPerson.ok
          THEN Unchanged(Err(HolderNotFound(firstDeliveryPersonId)))
          ELSE LET packageId == uuidv4
                   newPackage ==
                     [id |-> packageId,
                      sender |-> sender.Ok,
                      recipient |-> recipient.Ok,
                      status |-> packageStatusStrings.PROCESSING,
                      currentPackageHolder |-> firstDeliveryPerson.Ok,
                      deliveryHistory |->
                        << [packageHolder |-> sender.Ok, timestamp |-> ic_time],
                           [packageHolder |-> firstDeliveryPerson.Ok,
                            timestamp |-> ic_time] >>,
                      createdAt |-> ic_time]
               IN Reply(Ok(newPackage), packageHolderStorage,
                        Insert(packageStorage, packageId, newPackage), issued + 1)

createPackage(senderId, recipientId, firstDeliveryPersonId) ==
  IF revision = 1 THEN createPackageRev1(senderId, recipientId, firstDeliveryPersonId)
  ELSE createPackageRev2(senderId, recipientId, firstDeliveryPersonId)

getPackageById(packageId) ==
  IF ~isValidUUID(packageId) THEN Err(<<"Invalid package ID.">>)
  ELSE IF packageId \in DOMAIN packageStorage THEN Ok(packageStorage[packageId])
  ELSE Err(<<"Package not found.">>)

\* updatedStatus leaving the status alone unless the package is delivered.
updatedStatusKeepsStatus(existing, newHolder) ==
  IF existing.currentPackageHolder.uuid = existing.recipient.uuid
  THEN packageStatusStrings.DELIVERED
  ELSE existing.status

\* Step 1 of updatePackage: the status written by the update.
updatedStatus(existing, newHolder) ==
  IF existing.currentPackageHolder.uuid = existing.recipient.uuid
  THEN packageStatusStrings.DELIVERED
  ELSE packageStatusStrings.IN_TRANSIT

\* updatedPackage with the history restarted at the new entry instead of extended.
updatedPackageRestartsHistory(existing, newHolder) ==
  [existing EXCEPT
     !.status = updatedStatus(existing, newHolder),
     !.currentPackageHolder = newHolder,
     !.deliveryHistory = <<[packageHolder |-> newHolder, timestamp |-> ic_time]>>]

\* updatedPackage with createdAt stamped again at every update.
updatedPackageStampsCreatedAt(existing, newHolder) ==
  [existing EXCEPT
     !.status = updatedStatus(existing, newHolder),
     !.currentPackageHolder = newHolder,
     !.deliveryHistory =
        Append(existing.deliveryHistory,
               [packageHolder |-> newHolder, timestamp |-> ic_time]),
     !.createdAt = ic_time]

\* updatedPackage with the new entry put in front of the history.
updatedPackagePrependsEntry(existing, newHolder) ==
  [existing EXCEPT
     !.status = updatedStatus(existing, newHolder),
     !.currentPackageHolder = newHolder,
     !.deliveryHistory =
        <<[packageHolder |-> newHolder, timestamp |-> ic_time]>>
          \o existing.deliveryHistory]

\* updatedPackage without the replacement of currentPackageHolder.
updatedPackageKeepsHolder(existing, newHolder) ==
  [existing EXCEPT
     !.status = updatedStatus(existing, newHolder),
     !.currentPackageHolder = existing.currentPackageHolder,
     !.deliveryHistory =
        Append(existing.deliveryHistory,
               [packageHolder |-> newHolder, timestamp |-> ic_time])]

\* Steps 2 and 3 of updatePackage: the record written by the update.
updatedPackage(existing, newHolder) ==
  [existing EXCEPT
     !.status = updatedStatus(existing, newHolder),
     !.currentPackageHolder = newHolder,
     !.deliveryHistory =
        Append(existing.deliveryHistory,
               [packageHolder |-> newHolder, timestamp |-> ic_time])]

\* updatePackage with the status written before the new holder is resolved.
updatePackageMarksBeforeLookup(packageId, newPackageHolderId) ==
  IF ~isValidUUID(packageId) \/ ~isValidUUID(newPackageHolderId)
  THEN Unchanged(Err(<<"Invalid package ID or package holder ID.">>))
  ELSE LET newPackageHolder == getPackageHolderById(newPackageHolderId)
           existingPackage == getPackageById(packageId)
       IN IF ~newPackageHolder.ok
          THEN Reply(Err(<<"Could not update package with the new holder id=",
                           newPackageHolderId, ". Package holder not found!">>),
                     packageHolderStorage,
                     IF existingPackage.ok
                     THEN Insert(packageStorage, packageId,
                                 [existingPackage.Ok EXCEPT
                                    !.status = packageStatusStrings.IN_TRANSIT])
                     ELSE packageStorage,
                     issued)
          ELSE IF ~existingPackage.ok
          THEN Unchanged(Err(<<"Could not update package with the given id=",
                               packageId, ". Package not found!">>))
          ELSE LET updated == updatedPackage(existingPackage.Ok, newPackageHolder.Ok)
               IN Reply(Ok(updated), packageHolderStorage,
                        Insert(packageStorage, packageId, updated), issued)

\* updatePackage answering with the record it read instead of the record it wrote.
updatePackageReturnsStale(packageId, newPackageHolderId) ==
  IF ~isValidUUID(packageId) \/ ~isValidUUID(newPackageHolderId)
  THEN Unchanged(Err(<<"Invalid package ID or package holder ID.">>))
  ELSE LET newPackageHolder == getPackageHolderById(newPackageHolderId)
           existingPackage == getPackageById(packageId)
       IN IF ~newPackageHolder.ok
          THEN Unchanged(Err(<<"Could not update package with the new holder id=",
                               newPackageHolderId, ". Package holder not found!">>))
          ELSE IF ~existingPackage.ok
          THEN Unchanged(Err(<<"Could not update package with the given id=",
                               packageId, ". Package not found!">>))
          ELSE LET updated == updatedPackage(existingPackage.Ok, newPackageHolder.Ok)
               IN Reply(Ok(existingPackage.Ok), packageHolderStorage,
                        Insert(packageStorage, packageId, updated), issued)

\* updatePackage resolving the package before the new holder.
updatePackageResolvesPackageFirst(packageId, newPackageHolderId) ==
  IF ~isValidUUID(packageId) \/ ~isValidUUID(newPackageHolderId)
  THEN Unchanged(Err(<<"Invalid package ID or package holder ID.">>))
  ELSE LET newPackageHolder == getPackageHolderById(newPackageHolderId)
           existingPackage == getPackageById(packageId)
       IN IF ~existingPackage.ok
          THEN Unchanged(Err(<<"Could not update package with the given id=",
                               packageId, ". Package not found!">>))
          ELSE IF ~newPackageHolder.ok
          THEN Unchanged(Err(<<"Could not update package with the new holder id=",
                               newPackageHolderId, ". Package holder not found!">>))
          ELSE IF ~existingPackage.ok
          THEN Unchanged(Err(<<"Could not update package with the given id=",
                               packageId, ". Package not found!">>))
          ELSE LET updated == updatedPackage(existingPackage.Ok, newPackageHolder.Ok)
               IN Reply(Ok(updated), packageHolderStorage,
                        Insert(packageStorage, packageId, updated), issued)

updatePackage(packageId, newPackageHolderId) ==
  IF ~isValidUUID(packageId) \/ ~isValidUUID(newPackageHolderId)
  THEN Unchanged(Err(<<"Invalid package ID or package holder ID.">>))
  ELSE LET newPackageHolder == getPackageHolderById(newPackageHolderId)
           existingPackage == getPackageById(packageId)
       IN IF ~newPackageHolder.ok
          THEN Unchanged(Err(<<"Could not update package with the new holder id=",
                               newPackageHolderId, ". Package holder not found!">>))
          ELSE IF ~existingPackage.ok
          THEN Unchanged(Err(<<"Could not update package with the given id=",
                               packageId, ". Package not found!">>))
          ELSE LET updated == updatedPackage(existingPackage.Ok, newPackageHolder.Ok)
               IN Reply(Ok(updated), packageHolderStorage,
                        Insert(packageStorage, packageId, updated), issued)

\* ---- the canister as a state machine --------------------------------------
Init ==
  /\ revision \in {1, 2}
  /\ packageHolderStorage = <<>>
  /\ packageStorage = <<>>
  /\ issued = 0
  /\ now = 0

Apply(r) ==
  /\ packageHolderStorage' = r.holders
  /\ packageStorage' = r.packages
  /\ issued' = r.issued
  /\ UNCHANGED <<revision, now>>

\* A query call that empties the package ledger on its way.
QueryDropsLedger(res) ==
  /\ res.ok \in BOOLEAN
  /\ packageStorage' = <<>>
  /\ UNCHANGED <<revision, packageHolderStorage, issued, now>>

\* A query call: the reply goes to the caller, nothing is written.
Query(res) == res.ok \in BOOLEAN /\ UNCHANGED vars

\* Identifiers the calls are made with.
HolderIdInputs == (DOMAIN packageHolderStorage) \cup {GhostUUID, "not-a-uuid"}

PackageIdInputs == (DOMAIN packageStorage) \cup {GhostUUID, "not-a-uuid"}

RECURSIVE SumUpdates(_)
SumUpdates(ids) ==
  IF ids = {} THEN 0
  ELSE LET p == CHOOSE x \in ids : TRUE
       IN (Len(packageStorage[p].deliveryHistory) - 2) + SumUpdates(ids \ {p})

\* Number of successful updatePackage calls so far.
Updates == SumUpdates(DOMAIN packageStorage)

CreatePackageHolder ==
  \E name \in Names :
    LET r == createPackageHolder(name)
    IN /\ r.res.ok => Cardinality(DOMAIN packageHolderStorage) < MaxHolders
       /\ Apply(r)

GetPackageHolderById ==
  \E uuid \in HolderIdInputs : Query(getPackageHolderById(uuid))

GetAllPackageHolders ==
  /\ revision = 1
  /\ Query(getAllPackageHolders)

CreatePackage ==
  \E senderId \in HolderIdInputs \cup {""}, recipientId \in HolderIdInputs \cup {""},
     firstDeliveryPersonId \in HolderIdInputs \cup {""} :
    LET r == createPackage(senderId, recipientId, firstDeliveryPersonId)
    IN /\ r.res.ok => Cardinality(DOMAIN packageStorage) < MaxPackages
       /\ Apply(r)

GetPackageById ==
  \E packageId \in PackageIdInputs : Query(getPackageById(packageId))

UpdatePackage ==
  \E packageId \in PackageIdInputs, newPackageHolderId \in HolderIdInputs :
    LET r == updatePackage(packageId, newPackageHolderId)
    IN /\ r.res.ok => Updates < MaxUpdates
       /\ Apply(r)

\* The platform clock moves between two calls, never during one.
Tick ==
  /\ now < MaxTime
  /\ now' = now + 1
  /\ UNCHANGED <<revision, packageHolderStorage, packageStorage, issued>>

Next ==
  \/ CreatePackageHolder
  \/ GetPackageHolderById
  \/ GetAllPackageHolders
  \/ CreatePackage
  \/ GetPackageById
  \/ UpdatePackage
  \/ Tick

Spec == Init /\ [][Next]_vars

\* ---- vocabulary of the properties ------------------------------------------
\* The error taxonomy of the specification, read off the message a handler returns.
ErrorClass(msg) ==
  IF msg[1] \in {"Name is required.",
                 "Invalid package holder UUID.",
                 "Invalid package ID.",
                 "Invalid package ID or package holder ID.",
                 "Sender, recipient, and first delivery person ids are required.",
                 "Invalid sender, recipient, or first delivery person ID."}
  THEN "ValidationError"
  ELSE IF msg[1] \in {"Package holder not found.",
                      "Package not found.",
                      "Could not update package with the holder id=",
                      "Could not update package with the new holder id=",
                      "Could not update package with the given id="}
  THEN "NotFoundError"
  ELSE IF msg[1] = "A PackageHolder with the same name already exists."
  THEN "ConflictError"
  ELSE "StorageError"

Fails(r, class) == ~r.res.ok /\ ErrorClass(r.res.Err) = class

StatusRank(status) ==
  CASE status = "processing" -> 1
    [] status = "in transit" -> 2
    [] status = "delivered" -> 3

IsPrefix(s, t) == Len(s) <= Len(t) /\ \A i \in 1..Len(s) : s[i] = t[i]

HistoryHolders(pkg) ==
  {pkg.deliveryHistory[i].packageHolder.uuid : i \in 1..Len(pkg.deliveryHistory)}

Registered == DOMAIN packageHolderStorage

Stored == DOMAIN packageStorage

\* ---- C1 ---------------------------------------------------------------------
\* C1: every successful updatePackage(packageId, newHolderId) yields status
\* 'delivered' exactly when newHolderId is the package's recipient identifier and
\* 'in transit' otherwise; a first update of a 'processing' package to its
\* recipient gives 'delivered' with a deliveryHistory of length 3.
C1_DeliveredIffNewHolderIsRecipient ==
  \A p \in Stored, h \in IdInputs :
    LET r == updatePackage(p, h)
    IN r.res.ok =>
         /\ r.res.Ok.status = IF h = packageStorage[p].recipient.uuid
                              THEN "delivered" ELSE "in transit"
         /\ r.packages[p].status = r.res.Ok.status
         /\ (packageStorage[p].status = "processing" /\ h = packageStorage[p].recipient.uuid)
              => Len(r.res.Ok.deliveryHistory) = 3

\* ---- C2 ---------------------------------------------------------------------
\* C2: once a stored package is 'delivered', every later updatePackage on it is
\* rejected with a conflict error and the stored record stays as it was.
C2_DeliveredRejectsUpdates ==
  \A p \in Stored, h \in Registered :
    packageStorage[p].status = "delivered" =>
      LET r == updatePackage(p, h)
      IN Fails(r, "ConflictError") /\ r.packages = packageStorage

\* ---- C3 ---------------------------------------------------------------------
\* C3: updatePackage is rejected with a conflict error, the stored package
\* unchanged, whenever the new holder already appears in the deliveryHistory.
C3_RepeatHolderRejected ==
  \A p \in Stored, h \in Registered :
    h \in HistoryHolders(packageStorage[p]) =>
      LET r == updatePackage(p, h)
      IN Fails(r, "ConflictError") /\ r.packages = packageStorage

\* ---- C4 ---------------------------------------------------------------------
\* C4: across every step the status of a stored package never moves backward in
\* the order processing < in transit < delivered.
C4_StatusOnlyForward ==
  [][\A p \in Stored :
       p \in DOMAIN packageStorage'
       /\ StatusRank(packageStorage'[p].status) >= StatusRank(packageStorage[p].status)]_vars

\* ---- C5 ---------------------------------------------------------------------
\* C5: the deliveryHistory of a stored package is never empty; across every step
\* the old history is a prefix of the new one; a successful updatePackage extends
\* it by exactly one entry, whose holder is the registry's record of the new holder.
C5_HistoryAppendOnly ==
  /\ [](\A p \in Stored :
          /\ Len(packageStorage[p].deliveryHistory) >= 1
          /\ \A h \in IdInputs :
               LET r == updatePackage(p, h)
                   old == packageStorage[p].deliveryHistory
               IN r.res.ok =>
                    /\ Len(r.packages[p].deliveryHistory) = Len(old) + 1
                    /\ IsPrefix(old, r.packages[p].deliveryHistory)
                    /\ r.packages[p].deliveryHistory[Len(old) + 1].packageHolder
                         = packageHolderStorage[h])
  /\ [][\A p \in Stored :
          /\ p \in DOMAIN packageStorage'
          /\ IsPrefix(packageStorage[p].deliveryHistory,
                      packageStorage'[p].deliveryHistory)]_vars

\* A package that two successful updates have extended.
C5_Witness ==
  \E p \in Stored : Len(packageStorage[p].deliveryHistory) = 4

\* ---- C6 ---------------------------------------------------------------------
\* C6: no step changes the id, sender, recipient or createdAt of a stored
\* package; updatePackage writes only status, currentPackageHolder and
\* deliveryHistory of the addressed package and leaves every other package, and
\* the registry, as they were.
Immutables(pkg) == <<pkg.id, pkg.sender, pkg.recipient, pkg.createdAt>>

C6_UpdateFrame ==
  /\ [](\A p \in Stored, h \in IdInputs :
          LET r == updatePackage(p, h)
          IN /\ DOMAIN r.packages = Stored
             /\ r.holders = packageHolderStorage
             /\ \A q \in Stored \ {p} : r.packages[q] = packageStorage[q]
             /\ r.packages[p] =
                  [packageStorage[p] EXCEPT
                     !.status = r.packages[p].status,
                     !.currentPackageHolder = r.packages[p].currentPackageHolder,
                     !.deliveryHistory = r.packages[p].deliveryHistory])
  /\ [][\A p \in Stored :
          /\ p \in DOMAIN packageStorage'
          /\ Immutables(packageStorage'[p]) = Immutables(packageStorage[p])]_vars

\* Two stored packages, one of them updated at a later time than it was created.
C6_Witness ==
  \E p \in Stored, q \in Stored :
    /\ p # q
    /\ Len(packageStorage[p].deliveryHistory) = 3
    /\ packageStorage[p].deliveryHistory[3].timestamp > packageStorage[p].createdAt
    /\ Len(packageStorage[q].deliveryHistory) = 2

\* ---- C7 ---------------------------------------------------------------------
\* C7: createPackage(a, b, c) with three registered ids returns and stores a
\* package with status 'processing', current holder c and a deliveryHistory of
\* exactly two entries, sender a then first holder c, both stamped createdAt.
FreshlyCreated(pkg, a, c) ==
  /\ pkg.status = "processing"
  /\ pkg.sender.uuid = a
  /\ pkg.currentPackageHolder.uuid = c
  /\ Len(pkg.deliveryHistory) = 2
  /\ pkg.deliveryHistory[1].packageHolder.uuid = a
  /\ pkg.deliveryHistory[2].packageHolder.uuid = c
  /\ pkg.deliveryHistory[1].timestamp = pkg.createdAt
  /\ pkg.deliveryHistory[2].timestamp = pkg.createdAt

C7_CreatePackageResult ==
  /\ [](\A a \in Registered, b \in Registered, c \in Registered :
          LET r == createPackage(a, b, c)
          IN /\ r.res.ok
             /\ FreshlyCreated(r.res.Ok, a, c)
             /\ r.res.Ok.recipient.uuid = b
             /\ r.res.Ok.createdAt = now
             /\ r.res.Ok.id \notin Stored
             /\ DOMAIN r.packages = Stored \cup {r.res.Ok.id}
             /\ r.packages[r.res.Ok.id] = r.res.Ok)
  /\ [][\A p \in (DOMAIN packageStorage') \ Stored :
          FreshlyCreated(packageStorage'[p], packageStorage'[p].sender.uuid,
                         packageStorage'[p].currentPackageHolder.uuid)]_vars

\* A stored package as createPackage left it, its first holder not the sender
\* and not the recipient.
C7_Witness ==
  \E p \in Stored :
    /\ packageStorage[p].status = "processing"
    /\ Len(packageStorage[p].deliveryHistory) = 2
    /\ packageStorage[p].currentPackageHolder.uuid # packageStorage[p].sender.uuid
    /\ packageStorage[p].currentPackageHolder.uuid # packageStorage[p].recipient.uuid

\* ---- C8 ---------------------------------------------------------------------
\* C8: after a successful createPackage(a, b, c) the sender, the recipient, the
\* current holder and both history holders of the package equal, identifier and
\* name, the records getPackageHolderById returns for a, b and c.
C8_SnapshotsEqualRegistry ==
  \A a \in Registered, b \in Registered, c \in Registered :
    LET r == createPackage(a, b, c)
    IN r.res.ok =>
         /\ r.res.Ok.sender = getPackageHolderById(a).Ok
         /\ r.res.Ok.recipient = getPackageHolderById(b).Ok
         /\ r.res.Ok.currentPackageHolder = getPackageHolderById(c).Ok
         /\ r.res.Ok.deliveryHistory[1].packageHolder = getPackageHolderById(a).Ok
         /\ r.res.Ok.deliveryHistory[2].packageHolder = getPackageHolderById(c).Ok

\* ---- C9 ---------------------------------------------------------------------
\* C9: no two registered holders share a name; createPackageHolder(name) is
\* rejected with a conflict error, the registry unchanged, when the name is taken.
C9_NamesUnique ==
  /\ \A u \in Registered, v \in Registered :
       u # v => packageHolderStorage[u].name # packageHolderStorage[v].name
  /\ \A u \in Registered :
       LET r == createPackageHolder(packageHolderStorage[u].name)
       IN Fails(r, "ConflictError") /\ r.holders = packageHolderStorage

\* ---- C10 --------------------------------------------------------------------
\* C10: createPackageHolder(name) is rejected with a validation error, and adds
\* no holder, when name is empty and when name is whitespace only.
IsBlank(name) == name \in {"", "   "}

C10_BlankNameRejected ==
  \A name \in Names :
    IsBlank(name) =>
      LET r == createPackageHolder(name)
      IN Fails(r, "ValidationError") /\ r.holders = packageHolderStorage

\* ---- C11 --------------------------------------------------------------------
\* C11: updatePackage with a well-formed newHolderId that is not registered fails
\* with a not-found error and leaves the package, and every other stored record,
\* as it was.
WellFormedIds == {id \in IdInputs : isValidUUID(id)}

C11_UnknownHolderRejected ==
  \A p \in WellFormedIds, h \in WellFormedIds \ Registered :
    LET r == updatePackage(p, h)
    IN /\ Fails(r, "NotFoundError")
       /\ r.packages = packageStorage
       /\ r.holders = packageHolderStorage
       /\ r.issued = issued

\* A stored 'processing' package and a registered holder, where the update is
\* refused for a well-formed identifier that names a package and no holder.
C11_Witness ==
  \E p \in Stored :
    /\ Registered # {}
    /\ packageStorage[p].status = "processing"
    /\ Fails(updatePackage(p, p), "NotFoundError")

\* ---- C12 --------------------------------------------------------------------
\* C12: right after a successful createPackage or updatePackage, getPackageById
\* of that id returns the record the call returned, and it goes on returning it
\* until the next successful updatePackage on the same id.
C12_RoundTrip ==
  [][packageStorage' # packageStorage =>
       /\ \A p \in Stored, h \in Registered :
            LET r == updatePackage(p, h)
            IN (r.res.ok /\ packageStorage' = r.packages) => getPackageById(p)' = r.res
       /\ \A a \in Registered, b \in Registered, c \in Registered :
            LET r == createPackage(a, b, c)
            IN (r.res.ok /\ packageStorage' = r.packages)
                 => \A id \in {r.res.Ok.id} : getPackageById(id)' = r.res
       /\ \A p \in Stored :
            getPackageById(p)' # getPackageById(p) =>
              \E h \in Registered :
                LET r == updatePackage(p, h)
                IN r.res.ok /\ packageStorage' = r.packages]_vars

\* A package that one update has delivered, served by getPackageById.
C12_Witness ==
  \E p \in Stored :
    /\ getPackageById(p).ok
    /\ Len(getPackageById(p).Ok.deliveryHistory) = 3
    /\ getPackageById(p).Ok.status = "delivered"

\* ---- C13 --------------------------------------------------------------------
\* C13: createPackage with three well-formed ids, at least one of them not
\* registered, fails with a not-found error naming the first missing id in the
\* order sender, recipient, first holder; ledger and registry stay as they were.
FirstMissing(a, b, c) ==
  IF a \notin Registered THEN a ELSE IF b \notin Registered THEN b ELSE c

C13_CreateNamesFirstMissing ==
  \A a \in WellFormedIds, b \in WellFormedIds, c \in WellFormedIds :
    {a, b, c} \ Registered # {} =>
      LET r == createPackage(a, b, c)
      IN /\ Fails(r, "NotFoundError")
         /\ r.res.Err[2] = FirstMissing(a, b, c)
         /\ r.packages = packageStorage
         /\ r.holders = packageHolderStorage
         /\ r.issued = issued

\* A registered sender and two different unregistered ids: the error names the
\* recipient's id, not the first holder's.
C13_Witness ==
  \E a \in Registered, p \in Stored :
    LET r == createPackage(a, p, GhostUUID)
    IN Fails(r, "NotFoundError") /\ r.res.Err[2] = p /\ r.res.Err[2] # GhostUUID

\* ---- C14 --------------------------------------------------------------------
\* C14: updatePackage checks identifier syntax, then the new holder, then the
\* package: a malformed id gives the validation error whatever is stored; with
\* both ids well formed, an unknown holder gives the holder-not-found error even
\* when the package is unknown too, and only then an unknown package is reported.
IsHolderNotFound(r, h) ==
  /\ Fails(r, "NotFoundError")
  /\ r.res.Err[1] = "Could not update package with the new holder id="
  /\ r.res.Err[2] = h

IsPackageNotFound(r, p) ==
  /\ Fails(r, "NotFoundError")
  /\ r.res.Err[1] = "Could not update package with the given id="
  /\ r.res.Err[2] = p

C14_UpdateCheckOrder ==
  \A p \in IdInputs, h \in IdInputs :
    LET r == updatePackage(p, h)
    IN /\ (~isValidUUID(p) \/ ~isValidUUID(h)) => Fails(r, "ValidationError")
       /\ (isValidUUID(p) /\ isValidUUID(h) /\ h \notin Registered)
            => IsHolderNotFound(r, h)
       /\ (isValidUUID(p) /\ isValidUUID(h) /\ h \in Registered /\ p \notin Stored)
            => IsPackageNotFound(r, p)

\* Holders and packages are stored, one id is known as neither, another names a
\* holder and no package.
C14_Witness ==
  \E h \in Registered :
    /\ Stored # {}
    /\ IsHolderNotFound(updatePackage(GhostUUID, GhostUUID), GhostUUID)
    /\ IsPackageNotFound(updatePackage(h, h), h)
    /\ Fails(updatePackage("not-a-uuid", h), "ValidationError")

\* ---- C15 --------------------------------------------------------------------
\* C15: createPackageHolder with a valid name returns a holder carrying that name
\* and an identifier never issued before; from then on getPackageHolderById of
\* that identifier returns the same record after every step: no registry entry
\* is removed or altered.
TakenNames == {packageHolderStorage[u].name : u \in Registered}

C15_HoldersPermanent ==
  /\ [](/\ \A name \in Names :
             LET r == createPackageHolder(name)
             IN /\ (~IsBlank(name) /\ name \notin TakenNames) => r.res.ok
                /\ r.res.ok =>
                     /\ r.res.Ok.name = name
                     /\ r.res.Ok.uuid \notin IssuedUUIDs
                     /\ DOMAIN r.holders = Registered \cup {r.res.Ok.uuid}
                     /\ r.holders[r.res.Ok.uuid] = r.res.Ok
                     /\ \A u \in Registered : r.holders[u] = packageHolderStorage[u]
        /\ \A u \in Registered :
             /\ getPackageHolderById(u).ok
             /\ getPackageHolderById(u).Ok.uuid = u)
  /\ [][\A u \in Registered :
          getPackageHolderById(u)' = getPackageHolderById(u)]_vars

\* Two registered holders that are still served after a package was created and
\* handed on.
C15_Witness ==
  \E u \in Registered, v \in Registered, p \in Stored :
    /\ u # v
    /\ getPackageHolderById(u).Ok.name = "Alice"
    /\ getPackageHolderById(v).ok
    /\ Len(packageStorage[p].deliveryHistory) >= 3

\* ---- C16 --------------------------------------------------------------------
\* C16: getPackageById, getPackageHolderById and getAllPackageHolders are
\* read-only: succeeding or failing, a step of one of them leaves the holder
\* registry and the package ledger as they were.
C16_QueriesReadOnly ==
  [][(GetPackageById \/ GetPackageHolderById \/ GetAllPackageHolders)
       => UNCHANGED <<packageHolderStorage, packageStorage>>]_vars

\* Both maps are populated and each query has a call that succeeds and a call
\* that fails.
C16_Witness ==
  \E p \in Stored, u \in Registered :
    /\ revision = 1
    /\ getPackageById(p).ok
    /\ ~getPackageById(u).ok
    /\ getPackageHolderById(u).ok
    /\ ~getPackageHolderById(p).ok
    /\ Len(getAllPackageHolders.Ok) = 2

\* ---- C17 --------------------------------------------------------------------
\* C17: with a clock that never goes backward, the timestamps of every
\* deliveryHistory are non-decreasing in insertion order and none is smaller
\* than the package's createdAt.
C17_TimestampsOrdered ==
  \A p \in Stored :
    LET h == packageStorage[p].deliveryHistory
    IN /\ \A i \in 1..Len(h), j \in 1..Len(h) :
            i <= j => h[i].timestamp <= h[j].timestamp
       /\ \A i \in 1..Len(h) : h[i].timestamp >= packageStorage[p].createdAt

\* A package handed on after the clock has moved.
C17_Witness ==
  \E p \in Stored :
    /\ Len(packageStorage[p].deliveryHistory) >= 3
    /\ packageStorage[p].deliveryHistory[3].timestamp
         > packageStorage[p].deliveryHistory[2].timestamp

\* ---- C18 --------------------------------------------------------------------
\* C18: the currentPackageHolder of every stored package has the identifier of
\* the holder of the last deliveryHistory entry, and the first entry's holder has
\* the identifier of the sender.
C18_HolderMatchesHistory ==
  \A p \in Stored :
    LET pkg == packageStorage[p]
        h == pkg.deliveryHistory
    IN /\ Len(h) >= 1
       /\ pkg.currentPackageHolder.uuid = h[Len(h)].packageHolder.uuid
       /\ h[1].packageHolder.uuid = pkg.sender.uuid

\* A package whose holder was changed by an update.
C18_Witness ==
  \E p \in Stored :
    LET h == packageStorage[p].deliveryHistory
    IN /\ Len(h) >= 3
       /\ h[Len(h)].packageHolder.uuid # h[Len(h) - 1].packageHolder.uuid
       /\ packageStorage[p].currentPackageHolder.uuid # packageStorage[p].sender.uuid

\* ---- C19 --------------------------------------------------------------------
\* C19: a stored package is 'processing' exactly when its deliveryHistory has two
\* entries; the history starts with two entries and grows by one at every
\* successful updatePackage on the package and at no other step, so its length
\* is 2 plus the number of those calls.
SuccessfulUpdateOf(p) ==
  \E h \in HolderIdInputs :
    LET r == updatePackage(p, h)
    IN r.res.ok /\ packageStorage' = r.packages

C19_ProcessingIffTwoEntries ==
  /\ [](\A p \in Stored :
          packageStorage[p].status = "processing"
            <=> Len(packageStorage[p].deliveryHistory) = 2)
  /\ [][\A p \in DOMAIN packageStorage' :
          packageStorage' # packageStorage =>
          Len(packageStorage'[p].deliveryHistory) =
            IF p \notin Stored THEN 2
            ELSE IF SuccessfulUpdateOf(p)
                 THEN Len(packageStorage[p].deliveryHistory) + 1
                 ELSE Len(packageStorage[p].deliveryHistory)]_vars

\* One package in transit after a single update next to one still processing.
C19_Witness ==
  \E p \in Stored, q \in Stored :
    /\ packageStorage[p].status = "in transit"
    /\ Len(packageStorage[p].deliveryHistory) = 3
    /\ packageStorage[q].status = "processing"

\* ---- C20 --------------------------------------------------------------------
\* C20: every holder identifier in a stored package (sender, recipient, current
\* holder, every deliveryHistory entry) is the identifier of a registered holder,
\* and every package is stored under the key equal to its id field.
C20_ReferentialIntegrity ==
  \A p \in Stored :
    LET pkg == packageStorage[p]
    IN /\ pkg.id = p
       /\ pkg.sender.uuid \in Registered
       /\ pkg.recipient.uuid \in Registered
       /\ pkg.currentPackageHolder.uuid \in Registered
       /\ HistoryHolders(pkg) \subseteq Registered
       /\ \A u \in HistoryHolders(pkg) \cup {pkg.sender.uuid, pkg.recipient.uuid,
                                             pkg.currentPackageHolder.uuid} :
            packageHolderStorage[u].uuid = u

\* Two stored packages, one of them handed on twice between two holders.
C20_Witness ==
  \E p \in Stored, q \in Stored :
    /\ p # q
    /\ Len(packageStorage[p].deliveryHistory) = 4
    /\ Cardinality(HistoryHolders(packageStorage[p])) = 2

====
